---- MODULE Spec2Model ----
(***************************************************************************)
(* A model of the conan-build crate (src/src/lib.rs): manifest discovery   *)
(* (BuildInfoSet), one manifest (BuildInfo), the library classifier        *)
(* (find_all_libs), the link request (DependsOn) and the orchestrator      *)
(* (Conan).                                                                *)
(*                                                                         *)
(* Text that the code inspects character by character (file names of a     *)
(* library directory, environment variable names, target triples) is a     *)
(* sequence of one-character strings; text the code only compares or       *)
(* copies (package names, directory paths' components) is a TLA+ string.   *)
(* A panic (expect, unwrap, panic!, unimplemented!) ends the process: the  *)
(* model records it and enables no further action.                         *)
(***************************************************************************)
EXTENDS Integers, Sequences, FiniteSets, TLC

VARIABLES
    \* ---- classifier runs (find_all_libs) ----
    fs_listing,     \* directory path -> its entries in read_dir order
    fs_dlls,        \* the .dll files that exist, as [dir, file]
    cl_info,        \* the manifest's package map: name -> descriptor
    cl_runs,        \* the classifier runs made so far: [order, res]
    \* ---- Conan ----
    build_info_set, \* BuildInfoSet.info: target triple -> BuildInfo
    host,           \* Conan.host
    rerun_if_changed, \* Conan.rerun_if_changed
    stdout,         \* the directives written to standard output, in order
    panicked,       \* the process has panicked
    calls,          \* the calls made so far: [op, packages, out, panic]
    \* ---- BuildInfo::get_depends_on ----
    rs_build_info,  \* the manifest resolved against
    rs_packages,    \* the package names requested
    rs_result,      \* the DependsOn returned (or the panic), once resolved
    \* ---- BuildInfoSet::find_all ----
    dv_files,       \* the manifest files that exist: path -> document
    dv_root,        \* the entries of the root directory in read_dir order
    environ,        \* the environment: a sequence of [key, value]
    dv_result,      \* what find_all came to, once it has run
    \* ---- BuildInfoSet::path_from_env ----
    pe_result,      \* the paths path_from_env yielded, once it has run
    \* ---- Conan::generate_env_source ----
    es_pc,          \* "start", "loop", "done" or "panic"
    es_todo,        \* the targets all_targets has yet to yield
    es_sh,          \* the lines of env.sh
    es_ps1,         \* the lines of env.ps1
    es_calls        \* the write_env_source calls made: [target, is_host, ...]

clVars == <<fs_listing, fs_dlls, cl_info, cl_runs>>
setVars == <<build_info_set, host>>
coVars == <<rerun_if_changed, stdout, panicked, calls>>
rsVars == <<rs_build_info, rs_packages, rs_result>>
dvVars == <<dv_files, dv_root, dv_result>>
peVars == <<environ, pe_result>>
esVars == <<es_pc, es_todo, es_sh, es_ps1, es_calls>>

vars == <<clVars, setVars, coVars, rsVars, dvVars, peVars, esVars>>

----------------------------------------------------------------------------
(* Bounds of the model *)

MaxEntries == 2     \* entries of one library directory
MaxRuns == 2        \* classifier runs over one manifest
MaxCalls == 2       \* calls made on one Conan value
MaxPackages == 2    \* package names passed to one call

----------------------------------------------------------------------------
(* Text helpers: what the str methods used by the code do *)

\* str::ends_with
ends_with(s, suf) ==
    /\ Len(s) >= Len(suf)
    /\ SubSeq(s, Len(s) - Len(suf) + 1, Len(s)) = suf

\* str::starts_with
starts_with(s, pre) ==
    /\ Len(s) >= Len(pre)
    /\ SubSeq(s, 1, Len(pre)) = pre

\* str::rfind(char): the 0-based index of the last occurrence, -1 for None
rfind(s, c) ==
    IF \E i \in 1..Len(s) : s[i] = c
    THEN (CHOOSE i \in 1..Len(s) :
              /\ s[i] = c
              /\ \A j \in (i+1)..Len(s) : s[j] # c) - 1
    ELSE -1

\* &s[from..] with a 0-based from
SliceFrom(s, from) == SubSeq(s, from + 1, Len(s))

\* &s[..to] with a 0-based exclusive to
SliceTo(s, to) == SubSeq(s, 1, to)

\* PathBuf::pop: drops the last component, a no-op on an empty path
Pop(p) == IF Len(p) = 0 THEN p ELSE SubSeq(p, 1, Len(p) - 1)

\* HashMap::insert
Insert(m, k, v) ==
    [x \in (DOMAIN m) \cup {k} |-> IF x = k THEN v ELSE m[x]]

EmptyMap == [x \in {} |-> 0]

RECURSIVE Flatten(_)
Flatten(ss) ==
    IF ss = <<>> THEN <<>> ELSE Head(ss) \o Flatten(Tail(ss))

\* the sequences without repetition over a set, of length at most n
RECURSIVE SeqsUpTo(_, _)
SeqsUpTo(S, n) ==
    IF n = 0 THEN {<<>>}
    ELSE LET shorter == SeqsUpTo(S, n - 1)
         IN  shorter \cup
             {Append(s, x) : s \in {t \in shorter : Len(t) = n - 1},
                             x \in S}

NoRepeat(s) == \A i, j \in 1..Len(s) : i # j => s[i] # s[j]

Perms(S) == {s \in SeqsUpTo(S, Cardinality(S)) :
                Len(s) = Cardinality(S) /\ NoRepeat(s)}

----------------------------------------------------------------------------
(* Library classifier: find_all_libs, lib.rs 432-498 *)

DotLib == <<".", "l", "i", "b">>
DotSo == <<".", "s", "o">>
DotA == <<".", "a">>
DotDll == <<".", "d", "l", "l">>
LibPrefix == <<"l", "i", "b">>

\* the closure of the filter_map over one directory entry (lib.rs 444-488):
\* an entry error is passed on, a .lib is Shared when ../bin/<name>.dll
\* exists, a name ending in .so is Shared and one ending in .a is Static,
\* keyed by the name without a leading "lib" and without its last extension
classify_entry_contains_so(dir, entry, dlls) ==
    IF ~entry.ok THEN [kind |-> "err"]
    ELSE LET lib == entry.name
             has_so == \E i \in 1..Len(lib) :
                          /\ i + 2 <= Len(lib)
                          /\ SubSeq(lib, i, i + 2) = DotSo
         IN
      IF ends_with(lib, DotLib)
      THEN LET l == SliceTo(lib, Len(lib) - 4)
               dll == [dir  |-> Append(Pop(Pop(Append(dir, lib))), "bin"),
                       file |-> l \o DotDll]
           IN  [kind |-> "some", key |-> l,
                link |-> IF dll \in dlls THEN "Shared" ELSE "Static"]
      ELSE IF ~(has_so \/ ends_with(lib, DotA))
      THEN [kind |-> "none"]
      ELSE LET link == IF has_so THEN "Shared" ELSE "Static"
               l1 == IF starts_with(lib, LibPrefix)
                     THEN SliceFrom(lib, 3) ELSE lib
               ext == rfind(l1, ".")
               l2 == IF ext >= 0 THEN SliceTo(l1, ext) ELSE l1
           IN  [kind |-> "some", key |-> l2, link |-> link]

classify_entry(dir, entry, dlls) ==
    IF ~entry.ok THEN [kind |-> "err"]
    ELSE LET lib == entry.name IN
      IF ends_with(lib, DotLib)
      THEN LET l == SliceTo(lib, Len(lib) - 4)
               dll == [dir  |-> Append(Pop(Pop(Append(dir, lib))), "bin"),
                       file |-> l \o DotDll]
           IN  [kind |-> "some", key |-> l,
                link |-> IF dll \in dlls THEN "Shared" ELSE "Static"]
      ELSE IF ~(ends_with(lib, DotSo) \/ ends_with(lib, DotA))
      THEN [kind |-> "none"]
      ELSE LET link == IF ends_with(lib, DotSo) THEN "Shared" ELSE "Static"
               l1 == IF starts_with(lib, LibPrefix)
                     THEN SliceFrom(lib, 3) ELSE lib
               ext == rfind(l1, ".")
               l2 == IF ext >= 0 THEN SliceTo(l1, ext) ELSE l1
           IN  [kind |-> "some", key |-> l2, link |-> link]

\* BuildInfo::libdir_for_package
libdir_for_package(value) == value.lib_paths

\* the for loop over one directory's entries (lib.rs 490-493)
RECURSIVE InsertEntries(_, _, _, _)
InsertEntries(result, dir, entries, dlls) ==
    IF entries = <<>> THEN [ok |-> TRUE, map |-> result]
    ELSE LET r == classify_entry(dir, Head(entries), dlls) IN
         IF r.kind = "err" THEN [ok |-> FALSE]
         ELSE InsertEntries(
                 IF r.kind = "some" THEN Insert(result, r.key, r.link)
                                    ELSE result,
                 dir, Tail(entries), dlls)

\* the loops over the directories (lib.rs 437-495); a directory that cannot
\* be read is an io::Error
RECURSIVE ScanDirs(_, _, _, _)
ScanDirs(result, dirs, listing, dlls) ==
    IF dirs = <<>> THEN [ok |-> TRUE, map |-> result]
    ELSE IF Head(dirs) \notin DOMAIN listing THEN [ok |-> FALSE]
    ELSE LET r == InsertEntries(result, Head(dirs),
                                listing[Head(dirs)], dlls)
         IN  IF ~r.ok THEN r
             ELSE ScanDirs(r.map, Tail(dirs), listing, dlls)

\* it: the package descriptors in the order the HashMap iterator yields them
find_all_libs(it, listing, dlls) ==
    ScanDirs(EmptyMap,
             Flatten([i \in 1..Len(it) |-> libdir_for_package(it[i])]),
             listing, dlls)

----------------------------------------------------------------------------
(* Classifier runs over one manifest and one file system *)

\* the variables of the other specifications, at rest
clIdle ==
    /\ fs_listing = EmptyMap /\ fs_dlls = {} /\ cl_info = EmptyMap
    /\ cl_runs = <<>>
setIdle == build_info_set = EmptyMap /\ host = ""
coIdle ==
    /\ rerun_if_changed = FALSE /\ stdout = <<>> /\ panicked = FALSE
    /\ calls = <<>>
rsIdle ==
    rs_build_info = EmptyMap /\ rs_packages = <<>> /\ rs_result = EmptyMap
dvIdle == dv_files = EmptyMap /\ dv_root = <<>> /\ dv_result = EmptyMap
peIdle == environ = <<>> /\ pe_result = EmptyMap
esIdle ==
    /\ es_pc = "" /\ es_todo = {} /\ es_sh = <<>> /\ es_ps1 = <<>>
    /\ es_calls = <<>>

Chars_libf_so == <<"l", "i", "b", "f", ".", "s", "o">>
Chars_libf_a == <<"l", "i", "b", "f", ".", "a">>
Chars_libf_so_1 == <<"l", "i", "b", "f", ".", "s", "o", ".", "1">>
Chars_f_lib == <<"f", ".", "l", "i", "b">>
Chars_g_a == <<"g", ".", "a">>
Chars_notes == <<"n", "o", "t", "e", "s">>
Chars_f == <<"f">>
Chars_g == <<"g">>
Chars_f_dll == <<"f", ".", "d", "l", "l">>

FileNames == {Chars_libf_so, Chars_libf_a, Chars_libf_so_1, Chars_f_lib,
              Chars_g_a, Chars_notes}

\* what read_dir yields: an entry, or an error for that entry
DirEntries == {[ok |-> TRUE, name |-> n] : n \in FileNames}
                  \cup {[ok |-> FALSE]}

D1 == <<"p1", "lib">>
D2 == <<"p2", "lib">>

\* the listings of D1: every order of at most MaxEntries distinct entries
Listings1 == {s \in SeqsUpTo(DirEntries, MaxEntries) : NoRepeat(s)}

\* the listings of D2
Listings2 == {<<>>,
              <<[ok |-> TRUE, name |-> Chars_libf_a]>>,
              <<[ok |-> TRUE, name |-> Chars_libf_so]>>}

\* one entry of the manifest's "dependencies" array
PkgBin(name, libs, lib_paths, bin_paths) ==
    [name |-> name, libs |-> libs, lib_paths |-> lib_paths,
     bin_paths |-> bin_paths, rootpath |-> <<name>>]

Pkg(name, libs, lib_paths) == PkgBin(name, libs, lib_paths, <<>>)

\* package maps: name -> descriptor, as crate::build_info builds them
ClInfos == {
    [n \in {"a", "b"} |->
        IF n = "a" THEN Pkg("a", <<Chars_f>>, <<D1>>)
                   ELSE Pkg("b", <<Chars_f>>, <<D2>>)],
    [n \in {"a"} |-> Pkg("a", <<Chars_f, Chars_g>>, <<D1, D2>>)],
    [n \in {"a"} |-> Pkg("a", <<Chars_f>>, <<D1>>)] }

InitClassify ==
    /\ \E l1 \in Listings1, l2 \in Listings2, has1 \in BOOLEAN,
          has2 \in BOOLEAN :
          fs_listing = [d \in (IF has1 THEN {D1} ELSE {}) \cup
                              (IF has2 THEN {D2} ELSE {}) |->
                           IF d = D1 THEN l1 ELSE l2]
    /\ fs_dlls \in {{}, {[dir |-> <<"p1", "bin">>, file |-> Chars_f_dll]}}
    /\ cl_info \in ClInfos
    /\ cl_runs = <<>>
    /\ setIdle /\ coIdle /\ rsIdle /\ dvIdle /\ peIdle /\ esIdle

\* one run of find_all_libs(info.iter()) (lib.rs 89): the HashMap iterator
\* yields the packages in an order that differs from one map to the next
Classify ==
    /\ Len(cl_runs) < MaxRuns
    /\ \E order \in Perms(DOMAIN cl_info) :
          cl_runs' = Append(cl_runs,
              [order |-> order,
               res   |-> find_all_libs(
                            [i \in 1..Len(order) |-> cl_info[order[i]]],
                            fs_listing, fs_dlls)])
    /\ UNCHANGED <<fs_listing, fs_dlls, cl_info>>
    /\ UNCHANGED <<setVars, coVars, rsVars, dvVars, peVars, esVars>>

NextClassify == Classify

SpecClassify == InitClassify /\ [][NextClassify]_vars

\* the entries one run scans, in scan order, as [dir, entry]
ScanOf(order) ==
    LET dirs == Flatten([i \in 1..Len(order) |->
                            libdir_for_package(cl_info[order[i]])])
    IN  Flatten([i \in 1..Len(dirs) |->
                    [j \in 1..Len(fs_listing[dirs[i]]) |->
                        [dir |-> dirs[i], name |-> fs_listing[dirs[i]][j].name]]])

\* C7: two classifier runs over the same manifest and the same directory
\* contents yield the same result, whatever order the package map is
\* iterated in.
C7_Idempotent ==
    \A i, j \in DOMAIN cl_runs : cl_runs[i].res = cl_runs[j].res

\* a name is n followed by suf, for some n
HasForm(e, suf) == \E k \in 0..Len(e) : e = SubSeq(e, 1, k) \o suf

\* the name without a leading "lib"
Stem(e) ==
    IF \E k \in 0..Len(e) : e = LibPrefix \o SubSeq(e, Len(e) - k + 1, Len(e))
    THEN CHOOSE n \in {SubSeq(e, Len(e) - k + 1, Len(e)) : k \in 0..Len(e)} :
            e = LibPrefix \o n
    ELSE e

\* the name without its last extension
NoExt(s) ==
    CHOOSE n \in {SubSeq(s, 1, k) : k \in 0..Len(s)} :
        \E x \in {SubSeq(s, k, Len(s)) : k \in 1..(Len(s) + 1)} :
            /\ s = n \o <<".">> \o x
            /\ \A i \in 1..Len(x) : x[i] # "."

\* a versioned shared object: lib<n>.so.<version>
Versioned(e) ==
    \E k \in 0..Len(e) :
        /\ k < Len(e)
        /\ e = SubSeq(e, 1, k) \o DotSo \o <<".">> \o
                SubSeq(e, k + 5, Len(e))
        /\ Len(e) >= k + 5

VersionedKey(e) ==
    LET s == Stem(e)
    IN  CHOOSE n \in {SubSeq(s, 1, k) : k \in 0..Len(s)} :
            \E x \in {SubSeq(s, k, Len(s)) : k \in 1..(Len(s) + 1)} :
                s = n \o DotSo \o <<".">> \o x

\* what the classifier is to record for one entry: <<key, kind>>, or
\* <<>> for an entry that is no library artifact; versioned says whether
\* lib<n>.so.<version> counts as a shared object
Expected(x, versioned) ==
    LET e == x.name IN
    IF HasForm(e, DotLib)
    THEN LET n == CHOOSE n \in {SubSeq(e, 1, k) : k \in 0..Len(e)} :
                      e = n \o DotLib
         IN  <<n, IF [dir |-> Append(Pop(x.dir), "bin"), file |-> n \o DotDll]
                        \in fs_dlls THEN "Shared" ELSE "Static">>
    ELSE IF HasForm(e, DotSo) THEN <<NoExt(Stem(e)), "Shared">>
    ELSE IF HasForm(e, DotA) THEN <<NoExt(Stem(e)), "Static">>
    ELSE IF versioned /\ Versioned(e) THEN <<VersionedKey(e), "Shared">>
    ELSE <<>>

\* a completed run recorded exactly the expected entries, the last entry
\* of a key deciding its kind
RecordsExpected(run, versioned) ==
    LET scan == ScanOf(run.order)
        m == run.res.map
    IN  /\ \A p \in DOMAIN scan :
              LET x == Expected(scan[p], versioned) IN
              x # <<>> =>
                 /\ x[1] \in DOMAIN m
                 /\ (\A q \in (p+1)..Len(scan) :
                        LET y == Expected(scan[q], versioned) IN
                        y = <<>> \/ y[1] # x[1])
                    => m[x[1]] = x[2]
        /\ \A k \in DOMAIN m :
              \E p \in DOMAIN scan :
                 LET x == Expected(scan[p], versioned) IN
                 x # <<>> /\ x[1] = k

\* C8 (as stated): every scanned entry that is a shared object, a versioned
\* shared object such as libf.so.1 included, or a static archive is
\* recorded under its bare name with its kind; other entries add nothing.
C8_RecordsVersioned ==
    \A i \in DOMAIN cl_runs :
        cl_runs[i].res.ok => RecordsExpected(cl_runs[i], TRUE)

\* C8 (amended): a name ending in .so is recorded Shared and a name ending
\* in .a Static, under the name without a leading "lib" and without its
\* last extension; an import library is recorded by its dll probe; every
\* other entry, a versioned shared object such as libf.so.1 included, adds
\* nothing to the mapping.
C8_RecordsBySuffix ==
    \A i \in DOMAIN cl_runs :
        cl_runs[i].res.ok => RecordsExpected(cl_runs[i], FALSE)

\* a completed run over a directory holding libf.so.1 and g.a records
\* g as Static and nothing else
C8_Witness ==
    \E i \in DOMAIN cl_runs :
        /\ cl_runs[i].res.ok
        /\ \E p, q \in DOMAIN ScanOf(cl_runs[i].order) :
              /\ ScanOf(cl_runs[i].order)[p].name = Chars_libf_so_1
              /\ ScanOf(cl_runs[i].order)[q].name = Chars_g_a
        /\ DOMAIN cl_runs[i].res.map = {Chars_g}
        /\ cl_runs[i].res.map[Chars_g] = "Static"

----------------------------------------------------------------------------
(* One manifest: BuildInfo, lib.rs 76-308 *)

None == [some |-> FALSE]
Some(v) == [some |-> TRUE, value |-> v]
Panic == [panic |-> TRUE]

\* BuildInfo::try_package
try_package(b, p) ==
    IF p \in DOMAIN b.info THEN Some(b.info[p]) ELSE None

\* BuildInfo::package: panics with "No dependency" when the package is absent
package_never_panics(b, p) ==
    IF try_package(b, p).some
    THEN [panic |-> FALSE, value |-> try_package(b, p).value]
    ELSE [panic |-> FALSE,
          value |-> [name |-> p, libs |-> <<>>, lib_paths |-> <<>>,
                     bin_paths |-> <<>>, rootpath |-> <<>>]]

package(b, p) ==
    IF try_package(b, p).some
    THEN [panic |-> FALSE, value |-> try_package(b, p).value]
    ELSE Panic

\* BuildInfo::is_shared: a name the classifier did not record is Shared
is_shared_default_static(b, lib) ==
    (IF lib \in DOMAIN b.libs THEN b.libs[lib] ELSE "Static") = "Shared"

is_shared(b, lib) ==
    (IF lib \in DOMAIN b.libs THEN b.libs[lib] ELSE "Shared") = "Shared"

\* BuildInfo::libs_for
libs_for(b, p) ==
    LET v == package(b, p)
    IN  IF v.panic THEN Panic ELSE [panic |-> FALSE, value |-> v.value.libs]

\* BuildInfo::libdir_for
libdir_for(b, p) ==
    LET v == package(b, p)
    IN  IF v.panic THEN Panic
        ELSE [panic |-> FALSE, value |-> libdir_for_package(v.value)]

\* BuildInfo::bindir_for
bindir_for(b, p) ==
    LET v == package(b, p)
    IN  IF v.panic THEN Panic
        ELSE [panic |-> FALSE, value |-> v.value.bin_paths]

\* BuildInfo::rootpath_for
rootpath_for(b, p) ==
    LET v == package(b, p)
    IN  IF v.panic THEN Panic
        ELSE [panic |-> FALSE, value |-> v.value.rootpath]

\* struct Lib, struct LibDir
Lib(is_static, name) == [is_static |-> is_static, name |-> name]
LibDir(dir) == [dir |-> dir]

\* DependsOn::default
DependsOnDefault == [libs |-> <<>>, libdirs |-> <<>>]

\* BuildInfo::get_depends_on_package
get_depends_on_package(b, p) ==
    LET ls == libs_for(b, p)
        ds == libdir_for(b, p)
    IN  IF ls.panic \/ ds.panic THEN Panic
        ELSE [panic |-> FALSE,
              value |->
                [libs    |-> [i \in 1..Len(ls.value) |->
                                 Lib(~is_shared(b, ls.value[i]), ls.value[i])],
                 libdirs |-> [i \in 1..Len(ds.value) |->
                                 LibDir(ds.value[i])]]]

\* DependsOn::extend
extend(a, rhs) ==
    [libs |-> a.libs \o rhs.libs, libdirs |-> a.libdirs \o rhs.libdirs]

\* Iterator::fold with the closure |a, b| { a.extend(b); a }; an item whose
\* computation panics ends the fold
RECURSIVE Fold(_, _)
Fold(acc, items) ==
    IF items = <<>> THEN [panic |-> FALSE, value |-> acc]
    ELSE IF Head(items).panic THEN Panic
    ELSE Fold(extend(acc, Head(items).value), Tail(items))

\* BuildInfo::get_depends_on
get_depends_on(b, packages) ==
    Fold(DependsOnDefault,
         [i \in 1..Len(packages) |-> get_depends_on_package(b, packages[i])])

\* DependsOn::extend_all: reduce, the default for an empty iterator
extend_all(items) ==
    IF items = <<>> THEN [panic |-> FALSE, value |-> DependsOnDefault]
    ELSE IF Head(items).panic THEN Panic
    ELSE Fold(Head(items).value, Tail(items))

\* the lines written by Lib::apply, LibDir::apply and DependsOn::apply:
\* every library first, then every search directory
LinkLib(l) == [kind |-> "rustc-link-lib", name |-> l.name,
               static |-> l.is_static]
LinkSearch(d) == [kind |-> "rustc-link-search", dir |-> d.dir]

apply(d) ==
    [i \in 1..Len(d.libs) |-> LinkLib(d.libs[i])] \o
    [i \in 1..Len(d.libdirs) |-> LinkSearch(d.libdirs[i])]

Chars_libstdcxx11 == <<"l", "i", "b", "s", "t", "d", "c", "+", "+", "1", "1">>
Chars_stdcxx == <<"s", "t", "d", "c", "+", "+">>
Chars_libcxx == <<"l", "i", "b", "c", "+", "+">>

\* BuildInfo::libcxx_name
libcxx_name(b) ==
    IF "compiler.libcxx" \notin DOMAIN b.settings THEN None
    ELSE LET x == b.settings["compiler.libcxx"] IN
         Some(IF x = Chars_libstdcxx11 THEN Chars_stdcxx
              ELSE IF starts_with(x, LibPrefix) THEN SliceFrom(x, 3)
              ELSE x)

\* BuildInfo::libcxx
libcxx(b) ==
    IF libcxx_name(b).some THEN Some(Lib(FALSE, libcxx_name(b).value))
    ELSE None

----------------------------------------------------------------------------
(* The orchestrator: Conan, lib.rs 310-412 *)

\* BuildInfoSet::get_current_target
get_current_target(set, h) ==
    IF h \in DOMAIN set THEN Some(set[h]) ELSE None

\* Conan::build_info: panics with "Could not find build info" when the host
\* triple has no manifest
build_info(set, h) ==
    IF get_current_target(set, h).some
    THEN [panic |-> FALSE, value |-> get_current_target(set, h).value]
    ELSE Panic

RerunIfChanged(path) == [kind |-> "rerun-if-changed", path |-> path]

\* Conan::mark_rerun_if_changed: the flag after the call, the lines written
\* and whether the call panicked
mark_rerun_if_changed_no_flag(set, h, flag) ==
    IF build_info(set, h).panic
    THEN [flag |-> flag, out |-> <<>>, panic |-> TRUE]
    ELSE [flag |-> flag,
          out |-> <<RerunIfChanged(build_info(set, h).value.path)>>,
          panic |-> FALSE]

mark_rerun_if_changed(set, h, flag) ==
    IF flag THEN [flag |-> flag, out |-> <<>>, panic |-> FALSE]
    ELSE IF build_info(set, h).panic
         THEN [flag |-> TRUE, out |-> <<>>, panic |-> TRUE]
         ELSE [flag |-> TRUE,
               out |-> <<RerunIfChanged(build_info(set, h).value.path)>>,
               panic |-> FALSE]

\* the rest of a call once mark_rerun_if_changed has returned m: the link
\* request is built whole (items may panic) and then applied
AfterMark(m, set, h, items) ==
    IF m.panic THEN m
    ELSE IF build_info(set, h).panic \/ extend_all(items).panic
         THEN [m EXCEPT !.panic = TRUE]
         ELSE [m EXCEPT !.out = m.out \o apply(extend_all(items).value)]

\* Conan::depends_on
depends_on_emits_as_it_goes(set, h, flag, packages) ==
    LET m == mark_rerun_if_changed(set, h, flag)
        missing == {i \in 1..Len(packages) :
                       build_info(set, h).panic
                       \/ get_depends_on_package(set[h], packages[i]).panic}
        upto == IF missing = {} THEN Len(packages)
                ELSE (CHOOSE i \in missing : \A j \in missing : i <= j) - 1
    IN  IF m.panic THEN m
        ELSE [flag |-> m.flag,
              out |-> m.out \o
                  Flatten([i \in 1..upto |->
                      apply(get_depends_on_package(set[h],
                                                   packages[i]).value)]),
              panic |-> missing # {}]

depends_on(set, h, flag, packages) ==
    LET m == mark_rerun_if_changed(set, h, flag)
    IN  AfterMark(m, set, h,
            IF build_info(set, h).panic THEN <<>>
            ELSE [i \in 1..Len(packages) |->
                     get_depends_on_package(set[h], packages[i])])

\* .filter(|package| info.try_package(package).is_some())
RECURSIVE FilterPresent(_, _)
FilterPresent(b, s) ==
    IF s = <<>> THEN <<>>
    ELSE IF try_package(b, Head(s)).some
         THEN <<Head(s)>> \o FilterPresent(b, Tail(s))
         ELSE FilterPresent(b, Tail(s))

\* Conan::depends_on_optional
depends_on_optional(set, h, flag, packages) ==
    LET m == mark_rerun_if_changed(set, h, flag)
    IN  AfterMark(m, set, h,
            IF build_info(set, h).panic THEN <<>>
            ELSE LET kept == FilterPresent(set[h], packages)
                 IN  [i \in 1..Len(kept) |->
                         get_depends_on_package(set[h], kept[i])])

\* Conan::depends_on_libcxx
depends_on_libcxx(set, h, flag) ==
    LET m == mark_rerun_if_changed(set, h, flag)
    IN  IF m.panic THEN m
        ELSE IF build_info(set, h).panic THEN [m EXCEPT !.panic = TRUE]
        ELSE IF libcxx(set[h]).some
             THEN [m EXCEPT !.out = m.out \o <<LinkLib(libcxx(set[h]).value)>>]
             ELSE m

----------------------------------------------------------------------------
(* Calls on one Conan value *)

T_linux == "x86_64-unknown-linux-gnu"
T_android == "aarch64-linux-android"

\* two parsed manifests
BI_linux ==
    [path |-> <<"w", "conanbuildinfo.json">>,
     info |-> [n \in {"a", "b"} |->
                  IF n = "a" THEN Pkg("a", <<Chars_f, Chars_g>>, <<D1>>)
                             ELSE Pkg("b", <<Chars_f>>, <<D2, D1>>)],
     libs |-> (Chars_f :> "Static"),
     settings |-> ("arch" :> "x86_64" @@ "os" :> "Linux" @@
                   "compiler.libcxx" :> Chars_libstdcxx11)]

BI_android ==
    [path |-> <<"w", "android", "conanbuildinfo.json">>,
     info |-> [n \in {"a"} |-> Pkg("a", <<Chars_g>>, <<D2>>)],
     libs |-> (Chars_g :> "Shared"),
     settings |-> ("arch" :> "armv8" @@ "os" :> "Android")]

BuildInfoSets == {
    EmptyMap,
    (T_linux :> BI_linux),
    (T_linux :> BI_linux @@ T_android :> BI_android) }

PackageNames == {"a", "b", "zz"}
\* the lists a call is given: distinct names, in every order
PackageLists == {s \in SeqsUpTo(PackageNames, MaxPackages) : NoRepeat(s)}

\* Conan::with_host
InitConan ==
    /\ build_info_set \in BuildInfoSets
    /\ host \in {T_linux, T_android}
    /\ rerun_if_changed = FALSE
    /\ stdout = <<>>
    /\ panicked = FALSE
    /\ calls = <<>>
    /\ clIdle /\ rsIdle /\ dvIdle /\ peIdle /\ esIdle

\* a call returned r: record it
Returns(op, packages, r) ==
    /\ rerun_if_changed' = r.flag
    /\ stdout' = stdout \o r.out
    /\ panicked' = r.panic
    /\ calls' = Append(calls, [op |-> op, packages |-> packages,
                               out |-> r.out, panic |-> r.panic])
    /\ UNCHANGED <<clVars, setVars, rsVars, dvVars, peVars, esVars>>

CanCall == ~panicked /\ Len(calls) < MaxCalls

MarkRerunIfChanged ==
    /\ CanCall
    /\ Returns("mark_rerun_if_changed", <<>>,
               mark_rerun_if_changed(build_info_set, host, rerun_if_changed))

DependsOn ==
    /\ CanCall
    /\ \E packages \in PackageLists :
          Returns("depends_on", packages,
                  depends_on(build_info_set, host, rerun_if_changed, packages))

DependsOnOptional ==
    /\ CanCall
    /\ \E packages \in PackageLists :
          Returns("depends_on_optional", packages,
                  depends_on_optional(build_info_set, host, rerun_if_changed,
                                      packages))

DependsOnLibcxx ==
    /\ CanCall
    /\ Returns("depends_on_libcxx", <<>>,
               depends_on_libcxx(build_info_set, host, rerun_if_changed))

NextConan ==
    \/ MarkRerunIfChanged
    \/ DependsOn
    \/ DependsOnOptional
    \/ DependsOnLibcxx

Spec == InitConan /\ [][NextConan]_vars

\* the link directives among some lines
LinkLines(out) ==
    SelectSeq(out, LAMBDA l : l.kind # "rerun-if-changed")

HostPresent == host \in DOMAIN build_info_set

\* C1: with a manifest for the host triple, the first call on the Conan
\* value writes the rerun-if-changed directive as its first line, naming
\* the host manifest's path, and no later call writes one: standard output
\* holds exactly one such directive.
C1_RerunOnce ==
    HostPresent =>
      /\ \A i \in DOMAIN calls :
            LET reruns == {k \in DOMAIN calls[i].out :
                              calls[i].out[k].kind = "rerun-if-changed"}
            IN  IF i = 1
                THEN /\ reruns = {1}
                     /\ calls[i].out[1].path = build_info_set[host].path
                ELSE reruns = {}
      /\ Cardinality({k \in DOMAIN stdout :
                         stdout[k].kind = "rerun-if-changed"})
            = (IF calls = <<>> THEN 0 ELSE 1)

\* two calls were made, both writing link directives, the first one
\* after the rerun-if-changed directive
C1_Witness ==
    /\ HostPresent
    /\ Len(calls) = 2
    /\ calls[1].op = "depends_on_optional"
    /\ Len(calls[1].out) > 1
    /\ calls[2].op = "depends_on"
    /\ Len(calls[2].out) > 0

\* the contribution of one present package, read off the manifest
Contribution(b, p) ==
    apply([libs    |-> [j \in 1..Len(b.info[p].libs) |->
                          [is_static |-> /\ b.info[p].libs[j] \in DOMAIN b.libs
                                         /\ b.libs[b.info[p].libs[j]] = "Static",
                           name |-> b.info[p].libs[j]]],
           libdirs |-> <<>>]) \o
    apply([libs    |-> <<>>,
           libdirs |-> [j \in 1..Len(b.info[p].lib_paths) |->
                          [dir |-> b.info[p].lib_paths[j]]]])

\* C5: with a package name that the host manifest lacks among the requested
\* ones, depends_on panics; depends_on_optional does not, writes nothing for
\* that name, and writes the libraries and the search directories of every
\* requested package that is present.
C5_MissingPackage ==
    HostPresent =>
      \A i \in DOMAIN calls :
        LET b == build_info_set[host]
            c == calls[i]
            absent == {k \in DOMAIN c.packages :
                          c.packages[k] \notin DOMAIN b.info}
            lines == LinkLines(c.out)
        IN  /\ (c.op = "depends_on" /\ absent # {}) => c.panic
            /\ c.op = "depends_on_optional" =>
                 /\ ~c.panic
                 /\ \A k \in (DOMAIN c.packages) \ absent :
                       \A l \in DOMAIN Contribution(b, c.packages[k]) :
                          \E n \in DOMAIN lines :
                             lines[n] = Contribution(b, c.packages[k])[l]
                 /\ Len(lines) =
                       Len(Flatten([k \in DOMAIN c.packages |->
                              IF k \in absent THEN <<>>
                              ELSE Contribution(b, c.packages[k])]))

\* an optional call skipped "zz" and linked "a"; a required call for "zz"
\* then panicked
C5_Witness ==
    /\ HostPresent
    /\ Len(calls) = 2
    /\ calls[1].op = "depends_on_optional"
    /\ calls[1].packages = <<"zz", "a">>
    /\ LinkLines(calls[1].out) # <<>>
    /\ calls[2].op = "depends_on"
    /\ calls[2].packages = <<"a", "zz">>
    /\ calls[2].panic

\* C10: a depends_on call that panics (a requested package is missing, or
\* the host triple has no manifest) has written no link directive; a call
\* does panic in these cases; and a call that does not panic writes every
\* link-library line before its first link-search-path line.
C10_AllOrNothing ==
    \A i \in DOMAIN calls :
      LET c == calls[i]
          lines == LinkLines(c.out)
      IN  c.op = "depends_on" =>
            /\ c.panic => lines = <<>>
            /\ (~HostPresent \/ \E k \in DOMAIN c.packages :
                   c.packages[k] \notin DOMAIN build_info_set[host].info)
                  => c.panic
            /\ \A m, n \in DOMAIN lines :
                  (lines[m].kind = "rustc-link-lib"
                   /\ lines[n].kind = "rustc-link-search") => m < n

\* one depends_on call linked two packages, the next one panicked on a
\* missing package after a present one and wrote nothing
C10_Witness ==
    /\ Len(calls) = 2
    /\ calls[1].op = "depends_on"
    /\ calls[1].packages = <<"b", "a">>
    /\ Len(LinkLines(calls[1].out)) = 6
    /\ calls[2].op = "depends_on"
    /\ calls[2].packages = <<"a", "zz">>
    /\ calls[2].panic
    /\ calls[2].out = <<>>

----------------------------------------------------------------------------
(* BuildInfo::get_depends_on over a list of package names *)

T_macos == "x86_64-apple-darwin"

BI_macos ==
    [path |-> <<"w", "macos", "conanbuildinfo.json">>,
     info |-> [n \in {"a", "b"} |->
                  IF n = "a" THEN Pkg("a", <<Chars_g, Chars_f, Chars_g>>,
                                      <<D1, D2>>)
                             ELSE Pkg("b", <<>>, <<D2>>)],
     libs |-> (Chars_f :> "Shared" @@ Chars_g :> "Static"),
     settings |-> ("arch" :> "x86_64" @@ "os" :> "Macos" @@
                   "compiler.libcxx" :> Chars_libcxx)]

MaxResolve == 3     \* package names passed to get_depends_on

InitResolve ==
    /\ rs_build_info \in {BI_linux, BI_android, BI_macos}
    /\ rs_packages \in SeqsUpTo(PackageNames, MaxResolve)
    /\ rs_result = EmptyMap
    /\ clIdle /\ setIdle /\ coIdle /\ dvIdle /\ peIdle /\ esIdle

Resolve ==
    /\ rs_result = EmptyMap
    /\ rs_result' = get_depends_on(rs_build_info, rs_packages)
    /\ UNCHANGED <<rs_build_info, rs_packages>>
    /\ UNCHANGED <<clVars, setVars, coVars, dvVars, peVars, esVars>>

NextResolve == Resolve

SpecResolve == InitResolve /\ [][NextResolve]_vars

Resolved == rs_result # EmptyMap

AllPresent(b, packages) ==
    \A i \in DOMAIN packages : packages[i] \in DOMAIN b.info

\* C6: resolving package names that are all present yields, in request
\* order and without deduplication, one Lib per declared library name
\* (is_static exactly when the classifier recorded the name as Static, so
\* an unrecorded name is not static) and one LibDir per declared directory;
\* and resolving a list equals resolving any prefix, then the rest, and
\* concatenating the two.
C6_Concatenation ==
    (Resolved /\ AllPresent(rs_build_info, rs_packages)) =>
      LET b == rs_build_info
          n == Len(rs_packages)
          libsOf(p) == [j \in 1..Len(b.info[p].libs) |->
                          [is_static |->
                              /\ b.info[p].libs[j] \in DOMAIN b.libs
                              /\ b.libs[b.info[p].libs[j]] = "Static",
                           name |-> b.info[p].libs[j]]]
          dirsOf(p) == [j \in 1..Len(b.info[p].lib_paths) |->
                          [dir |-> b.info[p].lib_paths[j]]]
      IN  /\ ~rs_result.panic
          /\ rs_result.value.libs =
                Flatten([i \in 1..n |-> libsOf(rs_packages[i])])
          /\ rs_result.value.libdirs =
                Flatten([i \in 1..n |-> dirsOf(rs_packages[i])])
          /\ \A k \in 0..n :
                LET front == get_depends_on(b, SubSeq(rs_packages, 1, k))
                    back == get_depends_on(b, SubSeq(rs_packages, k + 1, n))
                IN  /\ rs_result.value.libs =
                          front.value.libs \o back.value.libs
                    /\ rs_result.value.libdirs =
                          front.value.libdirs \o back.value.libdirs

\* two different present packages were resolved, one of them twice, with a
\* library the classifier did not record among theirs
C6_Witness ==
    /\ Resolved
    /\ rs_build_info = BI_linux
    /\ rs_packages = <<"a", "b", "a">>
    /\ Len(rs_result.value.libs) = 5
    /\ \E i \in DOMAIN rs_result.value.libs :
          /\ rs_result.value.libs[i].name \notin DOMAIN rs_build_info.libs
          /\ ~rs_result.value.libs[i].is_static

----------------------------------------------------------------------------
(* The environment source: BuildInfoSet::path_from_env, lib.rs 32-38 *)

Chars_CONANBUILDINFO ==
    <<"C", "O", "N", "A", "N", "B", "U", "I", "L", "D", "I", "N",
      "F", "O">>
Chars_TARGET ==
    <<"T", "A", "R", "G", "E", "T">>
Chars_T_linux ==
    <<"x", "8", "6", "_", "6", "4", "-", "u", "n", "k", "n", "o",
      "w", "n", "-", "l", "i", "n", "u", "x", "-", "g", "n", "u">>
Chars_T_android ==
    <<"a", "a", "r", "c", "h", "6", "4", "-", "l", "i", "n", "u",
      "x", "-", "a", "n", "d", "r", "o", "i", "d">>
Chars_T_macos ==
    <<"x", "8", "6", "_", "6", "4", "-", "a", "p", "p", "l", "e",
      "-", "d", "a", "r", "w", "i", "n">>

\* the text of a target triple
TripleChars(t) ==
    IF t = T_linux THEN Chars_T_linux
    ELSE IF t = T_android THEN Chars_T_android
    ELSE Chars_T_macos

\* str::replace(from, to) for single characters
Replace(s, from, to) ==
    [i \in 1..Len(s) |-> IF s[i] = from THEN to ELSE s[i]]

\* str::split_once(c): the text before and after the first c, or None
split_once(s, c) ==
    IF \E i \in 1..Len(s) : s[i] = c
    THEN LET i == CHOOSE i \in 1..Len(s) :
                     s[i] = c /\ \A j \in 1..(i-1) : s[j] # c
         IN  Some(<<SubSeq(s, 1, i - 1), SubSeq(s, i + 1, Len(s))>>)
    ELSE None

\* the closure of the filter_map: is this variable's value a manifest path
IsManifestVar(key) ==
    LET sp == split_once(key, "_")
    IN  IF sp.some THEN sp.value[2] = Chars_CONANBUILDINFO
        ELSE key = Chars_CONANBUILDINFO

\* BuildInfoSet::path_from_env over std::env::vars()
RECURSIVE path_from_env(_)
path_from_env(env) ==
    IF env = <<>> THEN <<>>
    ELSE (IF IsManifestVar(Head(env).key) THEN <<Head(env).value>>
          ELSE <<>>) \o path_from_env(Tail(env))

\* the name write_env_source exports a manifest's path under (lib.rs
\* 199-205): the triple with '-' replaced by '_', then _CONANBUILDINFO
ExportedName(t) ==
    Replace(TripleChars(t), "-", "_") \o <<"_">> \o Chars_CONANBUILDINFO

BUILD_INFO == "conanbuildinfo.json"

\* manifest paths outside the working directory's ancestors
PathE == <<"o", "x", BUILD_INFO>>
PathO == <<"o", BUILD_INFO>>

MaxEnvVars == 2     \* variables of the environment

EnvKeys == {Chars_CONANBUILDINFO,
            <<"A", "_">> \o Chars_CONANBUILDINFO,
            <<"_">> \o Chars_CONANBUILDINFO,
            Chars_CONANBUILDINFO \o <<"_", "A">>,
            Chars_TARGET,
            ExportedName(T_linux),
            ExportedName(T_android)}

EnvVars == {[key |-> k, value |-> v] : k \in EnvKeys, v \in {PathE, PathO}}

\* an environment names each variable once
Environs ==
    {e \in SeqsUpTo(EnvVars, MaxEnvVars) :
        \A i, j \in 1..Len(e) : i # j => e[i].key # e[j].key}

NotRun == [ran |-> FALSE]

InitEnv ==
    /\ environ \in Environs
    /\ pe_result = NotRun
    /\ clIdle /\ setIdle /\ coIdle /\ rsIdle /\ dvIdle /\ esIdle

PathFromEnv ==
    /\ pe_result = NotRun
    /\ pe_result' = [ran |-> TRUE, paths |-> path_from_env(environ)]
    /\ UNCHANGED environ
    /\ UNCHANGED <<clVars, setVars, coVars, rsVars, dvVars, esVars>>

NextEnv == PathFromEnv

SpecEnv == InitEnv /\ [][NextEnv]_vars

\* C4: path_from_env yields the value of every variable named
\* CONANBUILDINFO or <TARGET>_CONANBUILDINFO with a non-empty TARGET,
\* a TARGET holding underscores included.
C4_EveryTargetName ==
    pe_result.ran =>
      \A i \in DOMAIN environ :
        LET key == environ[i].key
        IN  (\/ key = Chars_CONANBUILDINFO
             \/ \E k \in 1..Len(key) :
                   key = SubSeq(key, 1, k) \o <<"_">> \o Chars_CONANBUILDINFO)
            => \E n \in DOMAIN pe_result.paths :
                  pe_result.paths[n] = environ[i].value

----------------------------------------------------------------------------
(* Manifest discovery: BuildInfoSet::find_all, lib.rs 16-52 *)

\* BuildInfo::target_from_arch_and_os; "panic" for unimplemented!
target_from_arch_and_os(arch, os) ==
    IF os = "Linux" THEN
        (IF arch = "x86_64" THEN "x86_64-unknown-linux-gnu"
         ELSE IF arch = "x86" THEN "i686-unknown-linux-gnu"
         ELSE "panic")
    ELSE IF os = "Windows" THEN
        (IF arch = "x86_64" THEN "x86_64-pc-windows-msvc"
         ELSE IF arch = "x86" THEN "i686-pc-windows-msvc"
         ELSE "panic")
    ELSE IF os = "Macos" THEN
        (IF arch = "armv8" THEN "aarch64-apple-darwin"
         ELSE IF arch = "x86_64" THEN "x86_64-apple-darwin"
         ELSE "panic")
    ELSE IF os = "iOS" THEN
        (IF arch = "armv8" THEN "aarch64-apple-ios" ELSE "panic")
    ELSE IF os = "Android" THEN
        (IF arch = "armv8" THEN "aarch64-linux-android"
         ELSE IF arch = "armv7" THEN "armv7-linux-androideabi"
         ELSE IF arch = "x86" THEN "i686-linux-android"
         ELSE IF arch = "x86_64" THEN "x86_64-linux-android"
         ELSE "panic")
    ELSE "panic"

\* BuildInfo::target: the unwraps panic when settings lacks arch or os
target(b) ==
    IF "arch" \notin DOMAIN b.settings \/ "os" \notin DOMAIN b.settings
    THEN "panic"
    ELSE target_from_arch_and_os(b.settings["arch"], b.settings["os"])

(***************************************************************************)
(* A manifest file, by what read_build_info meets in it:                   *)
(*   readable  read_to_string succeeds (lib.rs 84, an io::Error if not)    *)
(*   json      the text is JSON (lib.rs 85, expect panics if not)          *)
(*   deps      "dependencies" is an array of named entries (lib.rs         *)
(*             421-426, the unwraps panic if not)                          *)
(*   libdirs   every library directory can be read (lib.rs 440-443, an     *)
(*             io::Error if not)                                           *)
(*   settings  the "settings" object                                       *)
(***************************************************************************)
Doc(readable, json, deps, libdirs, settings) ==
    [readable |-> readable, json |-> json, deps |-> deps,
     libdirs |-> libdirs, settings |-> settings]

Doc_linux == Doc(TRUE, TRUE, TRUE, TRUE, "arch" :> "x86_64" @@ "os" :> "Linux")
Doc_android ==
    Doc(TRUE, TRUE, TRUE, TRUE, "arch" :> "armv8" @@ "os" :> "Android")
Doc_unreadable == Doc(FALSE, FALSE, FALSE, FALSE, EmptyMap)
Doc_notjson == Doc(TRUE, FALSE, FALSE, FALSE, EmptyMap)
Doc_noshape == Doc(TRUE, TRUE, FALSE, TRUE, EmptyMap)
Doc_nosettings == Doc(TRUE, TRUE, TRUE, TRUE, EmptyMap)
Doc_nolibdir ==
    Doc(TRUE, TRUE, TRUE, FALSE, "arch" :> "x86_64" @@ "os" :> "Linux")
Doc_badarch == Doc(TRUE, TRUE, TRUE, TRUE, "arch" :> "mips" @@ "os" :> "Linux")

Docs == {Doc_linux, Doc_android, Doc_unreadable, Doc_notjson, Doc_noshape,
         Doc_nosettings, Doc_nolibdir, Doc_badarch}

\* BuildInfo::read_build_info of an existing file: "ok" with the BuildInfo,
\* "err" for an io::Error, "panic"
read_build_info(path, files) ==
    LET doc == files[path] IN
    IF ~doc.readable THEN [kind |-> "err"]
    ELSE IF ~doc.json THEN [kind |-> "panic"]
    ELSE IF ~doc.deps THEN [kind |-> "panic"]
    ELSE IF ~doc.libdirs THEN [kind |-> "err"]
    ELSE [kind |-> "ok",
          value |-> [path |-> path, info |-> EmptyMap, libs |-> EmptyMap,
                     settings |-> doc.settings]]

\* Path::ancestors: the path itself, then each parent up to the root
ancestors(dir) ==
    [i \in 1..(Len(dir) + 1) |-> SubSeq(dir, 1, Len(dir) + 1 - i)]

\* .rev()
Rev(s) == [i \in 1..Len(s) |-> s[Len(s) + 1 - i]]

\* the working directory; the root holds the directories w and o
CurrentDir == <<"w">>

\* Path::read_dir of an ancestor of the working directory: its directories
\* in the file system's order, and its own manifest file when it has one
read_dir(dir, root, files) ==
    (IF dir = <<>> THEN root ELSE <<>>) \o
    (IF Append(dir, BUILD_INFO) \in DOMAIN files THEN <<BUILD_INFO>>
     ELSE <<>>)

\* the closure of the flat_map (lib.rs 46-51): the manifest of every entry
\* of dir, then dir's own
CandidatesOf(dir, root, files) ==
    [i \in 1..Len(read_dir(dir, root, files)) |->
        Append(Append(dir, read_dir(dir, root, files)[i]), BUILD_INFO)]
    \o <<Append(dir, BUILD_INFO)>>

\* BuildInfoSet::path_from_filesystem
path_from_filesystem_cwd_first(current_dir, root, files) ==
    LET dirs == ancestors(current_dir)
    IN  Flatten([i \in 1..Len(dirs) |-> CandidatesOf(dirs[i], root, files)])

path_from_filesystem(current_dir, root, files) ==
    LET dirs == Rev(ancestors(current_dir))
    IN  Flatten([i \in 1..Len(dirs) |-> CandidatesOf(dirs[i], root, files)])

\* the iterator chain of find_all (lib.rs 18-27), one candidate at a time:
\* a path that does not exist is dropped, an io::Error is logged and the
\* candidate dropped, a panic ends the process, and a parsed manifest is
\* inserted under its own triple, replacing an earlier one
RECURSIVE Collect(_, _, _, _)
Collect(cands, files, info, warnings) ==
    IF cands = <<>>
    THEN [ran |-> TRUE, panic |-> FALSE, info |-> info,
          warnings |-> warnings]
    ELSE LET path == Head(cands) IN
      IF path \notin DOMAIN files
      THEN Collect(Tail(cands), files, info, warnings)
      ELSE LET r == read_build_info(path, files) IN
        IF r.kind = "panic" \/ (r.kind = "ok" /\ target(r.value) = "panic")
        THEN [ran |-> TRUE, panic |-> TRUE, info |-> info,
              warnings |-> warnings]
        ELSE IF r.kind = "err"
        THEN Collect(Tail(cands), files, info, Append(warnings, path))
        ELSE Collect(Tail(cands), files,
                     Insert(info, target(r.value), r.value), warnings)

\* BuildInfoSet::find_all
find_all(current_dir, root, files, env) ==
    Collect(path_from_filesystem(current_dir, root, files)
                \o path_from_env(env),
            files, EmptyMap, <<>>)

----------------------------------------------------------------------------
(* Discovery over one file system and one environment *)

PathRoot == <<BUILD_INFO>>
PathW == <<"w", BUILD_INFO>>

ManifestPaths == {PathRoot, PathW, PathO, PathE}

DvEnvirons == {
    <<>>,
    <<[key |-> Chars_CONANBUILDINFO, value |-> PathE]>>,
    <<[key |-> <<"A", "_">> \o Chars_CONANBUILDINFO, value |-> PathO]>>,
    <<[key |-> Chars_TARGET, value |-> PathE],
      [key |-> <<"A", "_">> \o Chars_CONANBUILDINFO, value |-> PathE],
      [key |-> Chars_CONANBUILDINFO, value |-> PathRoot]>> }

InitDiscover ==
    /\ \E present \in SUBSET ManifestPaths :
          dv_files \in [present -> Docs]
    /\ dv_root \in Perms({"w", "o"})
    /\ environ \in DvEnvirons
    /\ dv_result = NotRun
    /\ pe_result = NotRun
    /\ clIdle /\ setIdle /\ coIdle /\ rsIdle /\ esIdle

FindAll ==
    /\ dv_result = NotRun
    /\ dv_result' = find_all(CurrentDir, dv_root, dv_files, environ)
    /\ UNCHANGED <<dv_files, dv_root>>
    /\ UNCHANGED <<clVars, setVars, coVars, rsVars, peVars, esVars>>

NextDiscover == FindAll

SpecDiscover == InitDiscover /\ [][NextDiscover]_vars

\* a manifest file that read_build_info and target accept
Parses(path) ==
    /\ path \in DOMAIN dv_files
    /\ dv_files[path].readable /\ dv_files[path].json
    /\ dv_files[path].deps /\ dv_files[path].libdirs
    /\ "arch" \in DOMAIN dv_files[path].settings
    /\ "os" \in DOMAIN dv_files[path].settings
    /\ target_from_arch_and_os(dv_files[path].settings["arch"],
                               dv_files[path].settings["os"]) # "panic"

TripleOf(path) ==
    target_from_arch_and_os(dv_files[path].settings["arch"],
                            dv_files[path].settings["os"])

\* C2: discovery completes whatever the existing candidates hold: a
\* candidate that fails to parse is skipped, and every candidate that
\* parses has its triple indexed.
C2_Resilient ==
    dv_result.ran =>
      /\ ~dv_result.panic
      /\ \A path \in {PathRoot, PathW, PathO} :
            Parses(path) => TripleOf(path) \in DOMAIN dv_result.info

\* the documented discovery order: the manifests of the root's directories
\* in listing order, the root's own, the working directory's own, then the
\* values of the manifest variables in environment order
EnvCandidates ==
    LET e == SelectSeq(environ, LAMBDA v :
                 \/ v.key = Chars_CONANBUILDINFO
                 \/ v.key = <<"A", "_">> \o Chars_CONANBUILDINFO)
    IN  [i \in 1..Len(e) |-> e[i].value]

DocumentedOrder ==
    [i \in 1..Len(dv_root) |-> <<dv_root[i], BUILD_INFO>>]
    \o <<PathRoot, PathW>> \o EnvCandidates

\* C3: once discovery has completed, the set holds for each triple the
\* last candidate of the documented order that parses to that triple, and
\* nothing else; so an environment candidate of a triple wins over every
\* file system one, and the working directory's own manifest over those of
\* its ancestors.
C3_LastWins ==
    (dv_result.ran /\ ~dv_result.panic) =>
      LET order == DocumentedOrder
          info == dv_result.info
          last(t) == CHOOSE i \in DOMAIN order :
                        /\ Parses(order[i]) /\ TripleOf(order[i]) = t
                        /\ \A j \in (i+1)..Len(order) :
                              ~(Parses(order[j]) /\ TripleOf(order[j]) = t)
      IN  /\ DOMAIN info =
                {TripleOf(order[i]) :
                    i \in {j \in DOMAIN order : Parses(order[j])}}
          /\ \A t \in DOMAIN info :
                /\ info[t].path = order[last(t)]
                /\ (\E i \in DOMAIN EnvCandidates :
                       /\ Parses(EnvCandidates[i])
                       /\ TripleOf(EnvCandidates[i]) = t)
                   => \E i \in DOMAIN EnvCandidates :
                         info[t].path = EnvCandidates[i]
                /\ ((Parses(PathW) /\ TripleOf(PathW) = t
                     /\ info[t].path \notin
                           {EnvCandidates[i] : i \in DOMAIN EnvCandidates})
                    => info[t].path = PathW)

\* discovery completed over four manifests of one triple: a directory of
\* the root, the root, the working directory and the environment; the
\* environment's was kept
C3_Witness ==
    /\ dv_result.ran /\ ~dv_result.panic
    /\ \A p \in ManifestPaths : p \in DOMAIN dv_files /\ dv_files[p] = Doc_linux
    /\ environ = <<[key |-> Chars_CONANBUILDINFO, value |-> PathE]>>
    /\ DOMAIN dv_result.info = {T_linux}
    /\ dv_result.info[T_linux].path = PathE

----------------------------------------------------------------------------
(* Environment scripts: BuildInfo::write_env_source, lib.rs 194-252, and   *)
(* Conan::generate_env_source, lib.rs 396-403                              *)

Chars_OPENSSL_DIR ==
    <<"O", "P", "E", "N", "S", "S", "L", "_", "D", "I", "R">>
Chars_LD_LIBRARY_PATH ==
    <<"L", "D", "_", "L", "I", "B", "R", "A", "R", "Y", "_", "P",
      "A", "T", "H">>
Chars_PATH ==
    <<"P", "A", "T", "H">>
Chars_ssl ==
    <<"s", "s", "l">>

\* BuildInfoSet::all_targets: (is_host, target) for every indexed target
all_targets_all_host(set, h) == {<<TRUE, t>> : t \in DOMAIN set}

all_targets(set, h) == {<<t = h, t>> : t \in DOMAIN set}

\* one writeln!: the file, the variable assigned and its value
Write(file, name, value) == [file |-> file, name |-> name, value |-> value]

\* the packages with a library that is_shared, in all_deps order
RECURSIVE SharedDeps(_, _)
SharedDeps(b, deps) ==
    IF deps = <<>> THEN <<>>
    ELSE (IF \E i \in DOMAIN libs_for(b, Head(deps)).value :
                is_shared(b, libs_for(b, Head(deps)).value[i])
          THEN <<Head(deps)>> ELSE <<>>) \o SharedDeps(b, Tail(deps))

\* the writes of write_env_source, in order; all_deps is the order in which
\* the package map's keys are iterated. A joined list is kept as its parts
\* (directories are never the empty string, so the joined text is empty
\* exactly when there are no parts).
write_env_source(b, is_host, all_deps) ==
    LET prefix == Replace(TripleChars(target(b)), "-", "_")
        shared_deps == SharedDeps(b, all_deps)
        libdirs == Flatten([i \in 1..Len(shared_deps) |->
                               libdir_for(b, shared_deps[i]).value])
        bindirs == Flatten([i \in 1..Len(shared_deps) |->
                               bindir_for(b, shared_deps[i]).value])
    IN  <<Write("sh", prefix \o <<"_">> \o Chars_CONANBUILDINFO, b.path),
          Write("ps1", prefix \o <<"_">> \o Chars_CONANBUILDINFO, b.path)>>
        \o (IF libdirs # <<>> /\ is_host
            THEN <<Write("sh", Chars_LD_LIBRARY_PATH, libdirs)>> ELSE <<>>)
        \o (IF bindirs # <<>> /\ is_host
            THEN <<Write("ps1", Chars_PATH, bindirs)>> ELSE <<>>)
        \o (IF try_package(b, "openssl").some
            THEN <<Write("sh", prefix \o <<"_">> \o Chars_OPENSSL_DIR,
                         rootpath_for(b, "openssl").value),
                   Write("ps1", prefix \o <<"_">> \o Chars_OPENSSL_DIR,
                         rootpath_for(b, "openssl").value)>>
                 \o (IF is_host
                     THEN <<Write("sh", Chars_OPENSSL_DIR,
                                  rootpath_for(b, "openssl").value),
                            Write("ps1", Chars_OPENSSL_DIR,
                                  rootpath_for(b, "openssl").value)>>
                     ELSE <<>>)
            ELSE <<>>)

\* the lines some writes add to one file
LinesOf(writes, file) ==
    LET w == SelectSeq(writes, LAMBDA x : x.file = file)
    IN  [i \in 1..Len(w) |-> [name |-> w[i].name, value |-> w[i].value]]

----------------------------------------------------------------------------
(* One run of generate_env_source *)

B1 == <<"p1", "bin">>
T_windows == "x86_64-pc-windows-msvc"

ES_linux ==
    [path |-> <<"w", "conanbuildinfo.json">>,
     info |-> [n \in {"a", "openssl"} |->
                  IF n = "a"
                  THEN PkgBin("a", <<Chars_f, Chars_g>>, <<D1>>, <<B1>>)
                  ELSE PkgBin("openssl", <<Chars_ssl>>, <<D2>>, <<>>)],
     libs |-> (Chars_f :> "Static" @@ Chars_ssl :> "Static"),
     settings |-> ("arch" :> "x86_64" @@ "os" :> "Linux")]

ES_android ==
    [path |-> <<"w", "android", "conanbuildinfo.json">>,
     info |-> [n \in {"a", "openssl"} |->
                  IF n = "a"
                  THEN PkgBin("a", <<Chars_g>>, <<D2>>, <<B1>>)
                  ELSE PkgBin("openssl", <<Chars_ssl>>, <<D1>>, <<B1>>)],
     libs |-> (Chars_g :> "Shared" @@ Chars_ssl :> "Shared"),
     settings |-> ("arch" :> "armv8" @@ "os" :> "Android")]

ES_macos ==
    [path |-> <<"w", "macos", "conanbuildinfo.json">>,
     info |-> [n \in {"b"} |-> PkgBin("b", <<Chars_f>>, <<D1>>, <<B1>>)],
     libs |-> (Chars_f :> "Static"),
     settings |-> ("arch" :> "x86_64" @@ "os" :> "Macos")]

ES_all == (T_linux :> ES_linux @@ T_android :> ES_android
           @@ T_macos :> ES_macos)

StaleLine == [name |-> Chars_OPENSSL_DIR, value |-> <<"stale">>]

\* Conan::with_host, with env.sh and env.ps1 as an earlier run left them
InitEnvSource ==
    /\ \E ts \in SUBSET DOMAIN ES_all :
          build_info_set = [t \in ts |-> ES_all[t]]
    /\ host \in {T_linux, T_android, T_macos, T_windows}
    /\ es_pc = "start"
    /\ es_todo = {}
    /\ es_sh \in {<<>>, <<StaleLine>>}
    /\ es_ps1 = es_sh
    /\ es_calls = <<>>
    /\ clIdle /\ coIdle /\ rsIdle /\ dvIdle /\ peIdle

esOthers == <<clVars, setVars, coVars, rsVars, dvVars, peVars>>

\* File::create("env.sh"), File::create("env.ps1"): both files are
\* truncated; a failure panics (unwrap)
CreateFiles ==
    /\ es_pc = "start"
    /\ \E ok \in BOOLEAN :
          IF ok
          THEN /\ es_pc' = "loop"
               /\ es_sh' = <<>> /\ es_ps1' = <<>>
               /\ es_todo' = all_targets(build_info_set, host)
          ELSE /\ es_pc' = "panic"
               /\ UNCHANGED <<es_sh, es_ps1, es_todo>>
    /\ UNCHANGED es_calls
    /\ UNCHANGED esOthers

\* one iteration of the for loop: the HashMap iterator yields any target
\* not yet yielded; the first n writes succeed, and when one fails the
\* unwrap panics
WriteEnvSource ==
    /\ es_pc = "loop"
    /\ \E tgt \in es_todo :
       \E all_deps \in Perms(DOMAIN build_info_set[tgt[2]].info) :
          LET writes == write_env_source(build_info_set[tgt[2]], tgt[1],
                                         all_deps)
          IN  \E n \in 0..Len(writes) :
                /\ es_sh' = es_sh \o LinesOf(SubSeq(writes, 1, n), "sh")
                /\ es_ps1' = es_ps1 \o LinesOf(SubSeq(writes, 1, n), "ps1")
                /\ es_calls' = Append(es_calls,
                       [target |-> tgt[2], is_host |-> tgt[1],
                        writes |-> SubSeq(writes, 1, n),
                        failed |-> n < Len(writes)])
                /\ es_pc' = IF n < Len(writes) THEN "panic" ELSE "loop"
                /\ es_todo' = es_todo \ {tgt}
    /\ UNCHANGED esOthers

\* the iterator is exhausted: generate_env_source returns
Finish ==
    /\ es_pc = "loop"
    /\ es_todo = {}
    /\ es_pc' = "done"
    /\ UNCHANGED <<es_todo, es_sh, es_ps1, es_calls>>
    /\ UNCHANGED esOthers

NextEnvSource ==
    \/ CreateFiles
    \/ WriteEnvSource
    \/ Finish

SpecEnvSource == InitEnvSource /\ [][NextEnvSource]_vars

Unprefixed == {Chars_LD_LIBRARY_PATH, Chars_PATH, Chars_OPENSSL_DIR}

CountOf(lines, name) ==
    Cardinality({i \in DOMAIN lines : lines[i].name = name})

\* C9: a run that returns has written every indexed target exactly once,
\* as host exactly the target whose triple is the host triple; at any point
\* of a run the unprefixed assignments (LD_LIBRARY_PATH in env.sh, PATH in
\* env.ps1, OPENSSL_DIR in both) come from the host manifest only, each at
\* most once per file, and not at all when the host triple is not indexed.
C9_HostOnly ==
    /\ \A i \in DOMAIN es_calls :
          /\ es_calls[i].is_host = (es_calls[i].target = host)
          /\ \A k \in DOMAIN es_calls[i].writes :
                es_calls[i].writes[k].name \in Unprefixed
                   => es_calls[i].target = host
    /\ es_pc = "done" =>
          /\ \A t \in DOMAIN build_info_set :
                Cardinality({i \in DOMAIN es_calls :
                                es_calls[i].target = t}) = 1
          /\ Len(es_calls) = Cardinality(DOMAIN build_info_set)
          /\ \A i \in DOMAIN es_calls : ~es_calls[i].failed
    /\ es_pc \in {"loop", "done"} =>
          /\ \A name \in Unprefixed :
                /\ CountOf(es_sh, name) <= 1
                /\ CountOf(es_ps1, name) <= 1
          /\ CountOf(es_sh, Chars_PATH) = 0
          /\ CountOf(es_ps1, Chars_LD_LIBRARY_PATH) = 0
          /\ host \notin DOMAIN build_info_set =>
                \A name \in Unprefixed :
                   CountOf(es_sh, name) = 0 /\ CountOf(es_ps1, name) = 0

\* a run over three targets returned; the host's manifest was not written
\* first, and both files hold the host's unprefixed OPENSSL_DIR
C9_Witness ==
    /\ es_pc = "done"
    /\ Len(es_calls) = 3
    /\ host = T_android
    /\ es_calls[1].target # host
    /\ CountOf(es_sh, Chars_OPENSSL_DIR) = 1
    /\ CountOf(es_ps1, Chars_OPENSSL_DIR) = 1
    /\ CountOf(es_sh, Chars_LD_LIBRARY_PATH) = 1
    /\ CountOf(es_ps1, Chars_PATH) = 1

====
